---------------------------- MODULE Spec2Model ----------------------------
(***************************************************************************)
(* A model of orgviz (src/orgviz.py): the line-oriented outline parser     *)
(* (parseModel and the Person / Model classes it populates) and the        *)
(* renderer (getModelAsDot with the isPersonExcluded filter).              *)
(*                                                                         *)
(* Python strings are sequences of one-character strings.  Person objects  *)
(* live in a heap and are referred to by reference (their index in the     *)
(* heap), because Model.people and Model.lastPerson alias the same object. *)
(*                                                                         *)
(* Of the text getModelAsDot writes, the model keeps the statements and    *)
(* what they name: the title label, the members of each team subgraph, the *)
(* node statements (id, full name, title attribute) and the edge           *)
(* statements (origin, destination, label, style).  The styling by vizType,*)
(* the profile pictures, the legend, the dpi directive and the numbering   *)
(* of the clusters are left out: nothing below reads them.                 *)
(***************************************************************************)
EXTENDS Naturals, Sequences, FiniteSets

VARIABLES
    status,     \* position of main(): "parsing", "parsed", "parseFailed", "rendered", "renderFailed"
    doc,        \* the lines of the document that parseModel has consumed so far
                \* (under SpecNames: the names handed to the Model so far)
    title,      \* Model.title
    people,     \* Model.people: dotNodeName -> reference of the Person
    order,      \* insertion order of the keys of Model.people (a Python dict iterates in it)
    heap,       \* the Person objects created so far, indexed by reference
    edges,      \* Model.edges
    teams,      \* Model.teams
    lastPerson, \* Model.lastPerson (NoPerson while the attribute is not set)
    warnings,   \* the warnings logged so far, in order
    args,       \* the options the renderer consults (the global args)
    out         \* what getModelAsDot returned

vars == <<status, doc, title, people, order, heap, edges, teams, lastPerson, warnings, args, out>>

(***************************************************************************)
(* Bounds of the model.                                                    *)
(***************************************************************************)
MaxLines == 3
RenderMaxLines == 6
MaxNameLen == 4

(***************************************************************************)
(* Strings.                                                                *)
(***************************************************************************)
Chars(str) == [i \in 1..Len(str) |-> SubSeq(str, i, i)]

\* U+2018, the quote character of convertHumanNameToDotNodeName and of the
\* name pattern, written as an ASCII character that occurs nowhere else.
LQuote == "^"

Whitespace == {" ", "\t"}

LowerLetters == Chars("abcdefghijklmnopqrstuvwxyz")
UpperLetters == Chars("ABCDEFGHIJKLMNOPQRSTUVWXYZ")
Digits == Chars("0123456789")

Range(s) == {s[i] : i \in 1..Len(s)}

\* \w of the name pattern
WordChars == Range(LowerLetters) \cup Range(UpperLetters) \cup Range(Digits) \cup {"_"}

RECURSIVE LStrip(_)
LStrip(s) == IF s # <<>> /\ Head(s) \in Whitespace THEN LStrip(Tail(s)) ELSE s

RECURSIVE RStrip(_)
RStrip(s) ==
    IF s # <<>> /\ s[Len(s)] \in Whitespace THEN RStrip(SubSeq(s, 1, Len(s) - 1)) ELSE s

\* str.strip()
Strip(s) == RStrip(LStrip(s))

\* pat in s
Contains(s, pat) ==
    {i \in 1..(Len(s) - Len(pat) + 1) : SubSeq(s, i, i + Len(pat) - 1) = pat} # {}

\* s.startswith(pat)
StartsWith(s, pat) == Len(s) >= Len(pat) /\ SubSeq(s, 1, Len(pat)) = pat

\* s.find(pat) + 1, for a pat that occurs in s
Find(s, pat) ==
    CHOOSE i \in 1..(Len(s) - Len(pat) + 1) :
        /\ SubSeq(s, i, i + Len(pat) - 1) = pat
        /\ \A j \in 1..(i - 1) : SubSeq(s, j, j + Len(pat) - 1) # pat

\* s.split(pat, 1), for a pat that occurs in s
SplitFirst(s, pat) ==
    LET i == Find(s, pat)
    IN  <<SubSeq(s, 1, i - 1), SubSeq(s, i + Len(pat), Len(s))>>

\* s.replace(pat, rep), for a non-empty pat
RECURSIVE Replace(_, _, _)
Replace(s, pat, rep) ==
    IF Len(s) < Len(pat) THEN s
    ELSE IF SubSeq(s, 1, Len(pat)) = pat
         THEN rep \o Replace(SubSeq(s, Len(pat) + 1, Len(s)), pat, rep)
         ELSE <<Head(s)>> \o Replace(Tail(s), pat, rep)

UpperChar(c) ==
    IF \E i \in 1..26 : LowerLetters[i] = c
    THEN UpperLetters[CHOOSE i \in 1..26 : LowerLetters[i] = c]
    ELSE c

LowerChar(c) ==
    IF \E i \in 1..26 : UpperLetters[i] = c
    THEN LowerLetters[CHOOSE i \in 1..26 : UpperLetters[i] = c]
    ELSE c

\* str.upper(), str.lower()
Upper(s) == [i \in 1..Len(s) |-> UpperChar(s[i])]
Lower(s) == [i \in 1..Len(s) |-> LowerChar(s[i])]


(***************************************************************************)
(* Person.                                                                 *)
(***************************************************************************)
NoPerson == 0

NoTeam == Chars("??")

\* re.fullmatch("[\w\-` ]+", fullName) != None
ValidName(fullName) ==
    /\ fullName # <<>>
    /\ \A i \in 1..Len(fullName) : fullName[i] \in WordChars \cup {"-", LQuote, " "}

\* convertHumanNameToDotNodeName without its last replacement (the variant C8 is tried against)
convertKeepingQuote(name) ==
    LET n1 == Replace(Strip(name), <<" ">>, <<"_">>)
        n2 == Replace(Strip(n1), <<"-">>, <<>>)
    IN  Strip(n2)

convertHumanNameToDotNodeName(name) ==
    LET n1 == Replace(Strip(name), <<" ">>, <<"_">>)
        n2 == Replace(Strip(n1), <<"-">>, <<>>)
        n3 == Replace(Strip(n2), <<LQuote>>, <<"_">>)
    IN  n3

\* Person.__init__, for a fullName that the caller has not stripped yet
Person(fullName) ==
    [fullName    |-> Strip(fullName),
     dotNodeName |-> convertHumanNameToDotNodeName(Strip(fullName)),
     team        |-> NoTeam,
     influence   |-> <<>>,
     dmu         |-> Chars("U"),
     sentiment   |-> Chars("N"),
     attributes  |-> <<>>]

DmuAliases ==
    [D |-> {Chars("D"), Chars("DECISION MAKER"), Chars("DM")},
     B |-> {Chars("B"), Chars("BUYER"), Chars("BUY")},
     I |-> {Chars("I"), Chars("INFLUENCER")},
     G |-> {Chars("G"), Chars("GATEKEEPER")},
     U |-> {Chars("U"), Chars("USER")}]

SentimentAliases ==
    [P |-> {Chars("P"), Chars("PROMOTOR"), Chars("PROMOTER"), Chars("PROPONENT")},
     O |-> {Chars("O"), Chars("OPPONENT")},
     N |-> {Chars("N"), Chars("NEUTRAL")}]

\* setDmu without its last assignment: an unknown value is warned about and the
\* dmu kept (the variant C7 is tried against)
setDmuKeepingValue(m, ref, newValue) ==
    LET dmu == Strip(Upper(newValue))
    IN  IF      dmu \in DmuAliases.D THEN [m EXCEPT !.heap[ref].dmu = Chars("D")]
        ELSE IF dmu \in DmuAliases.B THEN [m EXCEPT !.heap[ref].dmu = Chars("B")]
        ELSE IF dmu \in DmuAliases.I THEN [m EXCEPT !.heap[ref].dmu = Chars("I")]
        ELSE IF dmu \in DmuAliases.G THEN [m EXCEPT !.heap[ref].dmu = Chars("G")]
        ELSE IF dmu \in DmuAliases.U THEN [m EXCEPT !.heap[ref].dmu = Chars("U")]
        ELSE [m EXCEPT !.warnings = Append(@, "UnknownDmu")]

\* Person.setDmu on the person at ref, with the warning it logs
setDmu(m, ref, newValue) ==
    LET dmu == Strip(Upper(newValue))
    IN  IF      dmu \in DmuAliases.D THEN [m EXCEPT !.heap[ref].dmu = Chars("D")]
        ELSE IF dmu \in DmuAliases.B THEN [m EXCEPT !.heap[ref].dmu = Chars("B")]
        ELSE IF dmu \in DmuAliases.I THEN [m EXCEPT !.heap[ref].dmu = Chars("I")]
        ELSE IF dmu \in DmuAliases.G THEN [m EXCEPT !.heap[ref].dmu = Chars("G")]
        ELSE IF dmu \in DmuAliases.U THEN [m EXCEPT !.heap[ref].dmu = Chars("U")]
        ELSE [m EXCEPT !.warnings = Append(@, "UnknownDmu"),
                       !.heap[ref].dmu = Chars("U")]

\* Person.setSentiment on the person at ref, with the warning it logs
setSentiment(m, ref, newValue) ==
    LET sentiment == Strip(Upper(newValue))
    IN  IF      sentiment \in SentimentAliases.P THEN [m EXCEPT !.heap[ref].sentiment = Chars("P")]
        ELSE IF sentiment \in SentimentAliases.O THEN [m EXCEPT !.heap[ref].sentiment = Chars("O")]
        ELSE IF sentiment \in SentimentAliases.N THEN [m EXCEPT !.heap[ref].sentiment = Chars("N")]
        ELSE [m EXCEPT !.warnings = Append(@, "UnknownSentiment"),
                       !.heap[ref].sentiment = Chars("N")]

setInfluence(m, ref, influence) == [m EXCEPT !.heap[ref].influence = Strip(influence)]

setTeam(m, ref, team) == [m EXCEPT !.heap[ref].team = team]

\* dict[k] = v
Put(d, k, v) == [x \in DOMAIN d \cup {k} |-> IF x = k THEN v ELSE d[x]]

setAttribute(m, ref, k, v) == [m EXCEPT !.heap[ref].attributes = Put(@, k, v)]

hasAttribute(p, key) == key \in DOMAIN p.attributes

\* getAttribute answering for the key "team" with the team field (the variant C3
\* is tried against)
getAttributeOrTeam(p, key) ==
    LET rawValue  == IF key = Chars("team") THEN p.team ELSE p.attributes[key]
        safeValue == Strip(Replace(Replace(rawValue, <<"&">>, Chars("&amp;")), <<"|">>, <<" ">>))
    IN  IF (key = Chars("team") \/ key \in DOMAIN p.attributes) /\ safeValue # <<>>
        THEN safeValue
        ELSE Chars("Unknown: ") \o key

getAttribute(p, key) ==
    LET rawValue  == p.attributes[key]
        safeValue == Strip(Replace(Replace(rawValue, <<"&">>, Chars("&amp;")), <<"|">>, <<" ">>))
    IN  IF key \in DOMAIN p.attributes /\ safeValue # <<>>
        THEN safeValue
        ELSE Chars("Unknown: ") \o key

(***************************************************************************)
(* Model.  A model value m is the record of the fields of the Model object *)
(* (with the heap of its Person objects and the log), and m.raised says    *)
(* that an exception has left the function under way.                      *)
(***************************************************************************)
\* Model.__init__
NewModel ==
    [title      |-> Chars("Untitled Organization"),
     people     |-> <<>>,
     order      |-> <<>>,
     heap       |-> <<>>,
     edges      |-> <<>>,
     teams      |-> {},
     lastPerson |-> NoPerson,
     warnings   |-> <<>>,
     raised     |-> FALSE]

\* an uncaught exception (an AttributeError for a lastPerson that is not set)
Raise(m) == [m EXCEPT !.raised = TRUE]

\* addPerson storing the person under its full name (the variant C2 is tried against)
addPersonUnderFullName(m, personFullName) ==
    LET person == Person(personFullName)
        ref    == Len(m.heap) + 1
    IN  [m EXCEPT !.heap       = Append(@, person),
                  !.people     = Put(@, person.fullName, ref),
                  !.order      = IF person.fullName \in DOMAIN m.people
                                 THEN @ ELSE Append(@, person.fullName),
                  !.lastPerson = ref,
                  !.warnings   = IF ValidName(person.fullName)
                                 THEN @ ELSE Append(@, "InvalidName")]

addPerson(m, personFullName) ==
    LET person == Person(personFullName)
        ref    == Len(m.heap) + 1
    IN  [m EXCEPT !.heap       = Append(@, person),
                  !.people     = Put(@, person.dotNodeName, ref),
                  !.order      = IF person.dotNodeName \in DOMAIN m.people
                                 THEN @ ELSE Append(@, person.dotNodeName),
                  !.lastPerson = ref,
                  !.warnings   = IF ValidName(person.fullName)
                                 THEN @ ELSE Append(@, "InvalidName")]

\* addTeam registering nothing (the variant C10 is tried against)
addTeamRegisteringNothing(m, team) == m

addTeam(m, team) == [m EXCEPT !.teams = @ \cup {team}]

addConnection(m, edgeType, destination) ==
    IF m.lastPerson = NoPerson THEN Raise(m)
    ELSE [m EXCEPT !.edges = Append(@,
              [origin      |-> m.heap[m.lastPerson].dotNodeName,
               type        |-> edgeType,
               destination |-> convertHumanNameToDotNodeName(destination)])]

\* the reference Model.findPerson returns, NoPerson when getPersonByName raises
getPersonByName(m, personFullName) ==
    IF personFullName \in DOMAIN m.people THEN m.people[personFullName] ELSE NoPerson

findPerson(m, name) ==
    LET hits == {i \in 1..Len(m.order) :
                    getAttribute(m.heap[m.people[m.order[i]]], Chars("id")) = name}
    IN  IF hits # {}
        THEN m.people[m.order[CHOOSE i \in hits : \A j \in hits : i <= j]]
        ELSE getPersonByName(m, name)

(***************************************************************************)
(* The outline parser.                                                     *)
(***************************************************************************)
Arrow == Chars("->")
Colon == Chars(":")

IsBlank(line) == line = <<>>

IsDirective(line) == StartsWith(line, Chars("@")) /\ Contains(line, Colon)

IsDetail(line) == StartsWith(line, <<"\t">>)

\* line.strip().replace("\t", "")
DetailText(line) == Replace(Strip(line), <<"\t">>, <<>>)

IsConnection(line) == IsDetail(line) /\ Contains(DetailText(line), Arrow)

IsProperty(line) ==
    IsDetail(line) /\ ~Contains(DetailText(line), Arrow) /\ Contains(DetailText(line), Colon)

IsUnparsable(line) ==
    IsDetail(line) /\ ~Contains(DetailText(line), Arrow) /\ ~Contains(DetailText(line), Colon)

IsDeclaration(line) == ~IsBlank(line) /\ ~IsDirective(line) /\ ~IsDetail(line)

\* the "@key: value" branch of parseModel
parseDirective(m, line) ==
    LET kv == SplitFirst(Replace(line, Chars("@"), <<>>), Colon)
    IN  IF kv[1] = Chars("title") THEN [m EXCEPT !.title = Strip(kv[2])] ELSE m

\* parseConnection recording the edge when either side is non-empty (the variant
\* C9 is tried against)
parseConnectionWithEitherSide(m, line) ==
    LET parts       == SplitFirst(line, Arrow)
        edgeType    == parts[1]
        destination == parts[2]
    IN  IF edgeType # <<>> \/ destination # <<>>
        THEN addConnection(m, Strip(edgeType), Strip(destination))
        ELSE m

parseConnection(m, line) ==
    LET parts       == SplitFirst(line, Arrow)
        edgeType    == parts[1]
        destination == parts[2]
    IN  IF edgeType # <<>> /\ destination # <<>>
        THEN addConnection(m, Strip(edgeType), Strip(destination))
        ELSE m

parsePersonProperty(m, line) ==
    LET kv            == SplitFirst(line, Colon)
        propertyKey   == Lower(Strip(kv[1]))
        propertyValue == Strip(kv[2])
        unset         == m.lastPerson = NoPerson
    IN  IF propertyKey = Chars("influence")
        THEN IF unset THEN Raise(m) ELSE setInfluence(m, m.lastPerson, propertyValue)
        ELSE IF propertyKey = Chars("sentiment")
        THEN IF unset THEN Raise(m) ELSE setSentiment(m, m.lastPerson, propertyValue)
        ELSE IF propertyKey = Chars("dmu")
        THEN IF unset THEN Raise(m) ELSE setDmu(m, m.lastPerson, propertyValue)
        ELSE IF propertyKey = Chars("team")
        THEN IF unset THEN Raise(addTeam(m, propertyValue))
             ELSE setTeam(addTeam(m, propertyValue), m.lastPerson, propertyValue)
        ELSE IF unset THEN Raise(m)
             ELSE setAttribute(m, m.lastPerson, propertyKey, propertyValue)

\* the tab-indented branch of parseModel, with the addPerson it falls through to
parseDetail(m, line) ==
    LET text == DetailText(line)
    IN  IF Contains(text, Arrow) THEN parseConnection(m, text)
        ELSE IF Contains(text, Colon) THEN parsePersonProperty(m, text)
        ELSE addPerson([m EXCEPT !.warnings = Append(@, "CannotParseLine")], text)

\* one iteration of the loop of parseModel
parseLine(m, line) ==
    IF line = <<>> THEN m
    ELSE IF IsDirective(line) THEN parseDirective(m, line)
    ELSE IF IsDetail(line) THEN parseDetail(m, line)
    ELSE addPerson(m, line)

(***************************************************************************)
(* The filter and the renderer.  a is the record of the options (args)     *)
(* they consult.  The output is kept as its statements: the title label,   *)
(* per team the members its subgraph lists, the node statements and the    *)
(* edge statements, each in the order it is written.                       *)
(***************************************************************************)
Equals == Chars("=")

\* whether the search "key=val" of attributeMatches excludes the person
SearchExcludes(p, attributeSearch) ==
    /\ Contains(attributeSearch, Equals)
    /\ LET kv  == SplitFirst(attributeSearch, Equals)
           key == Strip(kv[1])
           val == Strip(kv[2])
       IN  ~Contains(getAttribute(p, key), val)

isPersonExcluded(a, p) ==
    \/ \E i \in 1..Len(a.attributeMatches) : SearchExcludes(p, a.attributeMatches[i])
    \/ a.teams # {} /\ p.team \notin a.teams
    \/ a.influence # {} /\ p.influence \notin a.influence

\* the persons of model.people.values(), in the order of the dict
PeopleValues(m) == [i \in 1..Len(m.order) |-> m.heap[m.people[m.order[i]]]]

\* getTeamsAsDot: for each team of model.teams the members its subgraph lists
getTeamsAsDot(m, a) ==
    IF a.skipDrawingTeams THEN <<>>
    ELSE [teamName \in m.teams |->
            LET Member(p) == ~isPersonExcluded(a, p) /\ p.team = teamName
                members   == SelectSeq(PeopleValues(m), Member)
            IN  [i \in 1..Len(members) |-> members[i].dotNodeName]]

getEdgeDotStyle(edge) ==
    IF edge.type = Chars("supports") THEN Chars("style=dotted") ELSE <<>>

\* the node statements of getModelAsDot
NodeStatements(m, a) ==
    LET Shown(p) == ~isPersonExcluded(a, p)
        shown    == SelectSeq(PeopleValues(m), Shown)
    IN  [i \in 1..Len(shown) |->
            [id       |-> shown[i].dotNodeName,
             fullName |-> shown[i].fullName,
             title    |-> getAttribute(shown[i], Chars("title"))]]

\* whether the condition of the edge loop raises for this edge: findPerson fails
\* for the origin, or for the destination when the "or" gets to evaluating it
EdgeRaises(m, a, edge) ==
    LET o == findPerson(m, edge.origin)
    IN  \/ o = NoPerson
        \/ /\ ~isPersonExcluded(a, m.heap[o])
           /\ findPerson(m, edge.destination) = NoPerson

\* whether the edge loop skips this edge (for an edge that does not raise)
EdgeSkipped(m, a, edge) ==
    \/ isPersonExcluded(a, m.heap[findPerson(m, edge.origin)])
    \/ isPersonExcluded(a, m.heap[findPerson(m, edge.destination)])

\* the edge statements of getModelAsDot (when no edge raises)
EdgeStatements(m, a) ==
    LET Kept(edge) == ~EdgeSkipped(m, a, edge)
        kept       == SelectSeq(m.edges, Kept)
    IN  [i \in 1..Len(kept) |->
            [origin      |-> kept[i].origin,
             destination |-> m.heap[findPerson(m, kept[i].destination)].dotNodeName,
             label       |-> kept[i].type,
             style       |-> getEdgeDotStyle(kept[i])]]

RenderRaises(m, a) == \E i \in 1..Len(m.edges) : EdgeRaises(m, a, m.edges[i])

getModelAsDot(m, a) ==
    [label     |-> IF a.skipDrawingTitle THEN <<>>
                   ELSE m.title \o Chars(" - github.com/jamesread/orgviz"),
     subgraphs |-> getTeamsAsDot(m, a),
     nodes     |-> NodeStatements(m, a),
     edges     |-> EdgeStatements(m, a)]

(***************************************************************************)
(* The state machine: parseModel consumes the document a line at a time.   *)
(***************************************************************************)
NoArgs ==
    [attributeMatches |-> <<>>, teams |-> {}, influence |-> {},
     skipDrawingTeams |-> FALSE, skipDrawingTitle |-> FALSE]

NoOutput == <<>>

\* the model object as the variables hold it
Cur ==
    [title |-> title, people |-> people, order |-> order, heap |-> heap, edges |-> edges,
     teams |-> teams, lastPerson |-> lastPerson, warnings |-> warnings, raised |-> FALSE]

Commit(m) ==
    /\ title' = m.title
    /\ people' = m.people
    /\ order' = m.order
    /\ heap' = m.heap
    /\ edges' = m.edges
    /\ teams' = m.teams
    /\ lastPerson' = m.lastPerson
    /\ warnings' = m.warnings

Init ==
    /\ status = "parsing"
    /\ doc = <<>>
    /\ title = NewModel.title
    /\ people = NewModel.people
    /\ order = NewModel.order
    /\ heap = NewModel.heap
    /\ edges = NewModel.edges
    /\ teams = NewModel.teams
    /\ lastPerson = NewModel.lastPerson
    /\ warnings = NewModel.warnings
    /\ args = NoArgs
    /\ out = NoOutput

\* parseModel reads the next line of the document
ReadLine(line) ==
    /\ status = "parsing"
    /\ LET m == parseLine(Cur, line)
       IN  /\ Commit(m)
           /\ status' = IF m.raised THEN "parseFailed" ELSE "parsing"
    /\ doc' = Append(doc, line)
    /\ UNCHANGED <<args, out>>

ReadBlank(line) == IsBlank(line) /\ ReadLine(line)

ReadDirective(line) == IsDirective(line) /\ ReadLine(line)

ReadConnection(line) == IsConnection(line) /\ ReadLine(line)

ReadProperty(line) == IsProperty(line) /\ ReadLine(line)

ReadUnparsable(line) == IsUnparsable(line) /\ ReadLine(line)

ReadDeclaration(line) == IsDeclaration(line) /\ ReadLine(line)

\* the document ends and parseModel returns the model
Return ==
    /\ status = "parsing"
    /\ status' = "parsed"
    /\ UNCHANGED <<doc, title, people, order, heap, edges, teams, lastPerson, warnings, args, out>>

\* main() renders the parsed model under the options a
Render(a) ==
    /\ status = "parsed"
    /\ args' = a
    /\ IF RenderRaises(Cur, a)
       THEN status' = "renderFailed" /\ out' = NoOutput
       ELSE status' = "rendered" /\ out' = getModelAsDot(Cur, a)
    /\ UNCHANGED <<doc, title, people, order, heap, edges, teams, lastPerson, warnings>>

\* the lines the documents of Spec are made of
Lines ==
    { <<>>,
      Chars("@title: Acme"),
      Chars("@note"),
      Chars("Alice"),
      Chars("Bob"),
      Chars("Bo-b"),
      Chars("\tteam: Eng"),
      Chars("\tdmu: dm"),
      Chars("\tdmu: boss"),
      Chars("\tSentiment: P"),
      Chars("\tsentiment: meh"),
      Chars("\tcountry: UK"),
      Chars("\tsupports -> Bob"),
      Chars("\tleads -> Bob->x"),
      Chars("\t-> Bob"),
      Chars("\tsupports ->"),
      Chars("\tsupports -> -"),
      Chars("\tnonsense") }

\* the lines a document may go on with while it is shorter than max
NextLines(lines, max) == IF Len(doc) < max THEN lines ELSE {}

Next ==
    \/ \E line \in NextLines(Lines, MaxLines) : ReadBlank(line)
    \/ \E line \in NextLines(Lines, MaxLines) : ReadDirective(line)
    \/ \E line \in NextLines(Lines, MaxLines) : ReadConnection(line)
    \/ \E line \in NextLines(Lines, MaxLines) : ReadProperty(line)
    \/ \E line \in NextLines(Lines, MaxLines) : ReadUnparsable(line)
    \/ \E line \in NextLines(Lines, MaxLines) : ReadDeclaration(line)
    \/ Return

Spec == Init /\ [][Next]_vars

(***************************************************************************)
(* SpecRender: documents of people with teams, an id attribute and         *)
(* connections are parsed and then rendered under a team filter or none.   *)
(***************************************************************************)
RenderLines ==
    { Chars("Bob"),
      Chars("Carol"),
      Chars("\tteam: Sales"),
      Chars("\tteam: Eng"),
      Chars("\tid: Bob"),
      Chars("\tsupports -> Carol") }

TeamsEng == [NoArgs EXCEPT !.teams = {Chars("Eng")}]

RenderArgs == {NoArgs, TeamsEng}

RenderNext ==
    \/ \E line \in NextLines(RenderLines, RenderMaxLines) : ReadConnection(line)
    \/ \E line \in NextLines(RenderLines, RenderMaxLines) : ReadProperty(line)
    \/ \E line \in NextLines(RenderLines, RenderMaxLines) : ReadDeclaration(line)
    \/ Return
    \/ \E a \in RenderArgs : Render(a)

SpecRender == Init /\ [][RenderNext]_vars

(***************************************************************************)
(* SpecExample: the example document, or a prefix of it, is parsed and     *)
(* rendered under each combination of the filters.                         *)
(***************************************************************************)
ExampleDoc ==
    << Chars("@title: Acme"),
       Chars("Alice"),
       Chars("\tteam: Eng"),
       Chars("\tdmu: D"),
       Chars("\tsupports -> Bob"),
       Chars("Bob"),
       Chars("\tteam: Sales") >>

ExampleArgs ==
    [attributeMatches : {<<>>, <<Chars("team=Eng")>>, <<Chars("team = Sales")>>,
                         <<Chars("id=Alice")>>, <<Chars("noequals")>>},
     teams            : {{}, {Chars("Eng")}, {Chars("Sales")}},
     influence        : {{}, {Chars("supporter")}},
     skipDrawingTeams : BOOLEAN,
     skipDrawingTitle : {FALSE}]

\* parseModel reads the next line of the example document
ReadExample ==
    /\ Len(doc) < Len(ExampleDoc)
    /\ ReadLine(ExampleDoc[Len(doc) + 1])

ExampleNext ==
    \/ ReadExample
    \/ Return
    \/ \E a \in ExampleArgs : Render(a)

SpecExample == Init /\ [][ExampleNext]_vars

(***************************************************************************)
(* SpecNames: a name is handed to Model.addPerson and then, as the         *)
(* destination, to Model.addConnection.  doc holds the names handed over.  *)
(***************************************************************************)
NameAlphabet == {"a", "_", " ", "\t", "-", LQuote}

\* the strings over NameAlphabet of at most MaxNameLen characters
Names == UNION {[1..n -> NameAlphabet] : n \in 0..MaxNameLen}

DeclareName(name) ==
    /\ status = "parsing"
    /\ doc = <<>>
    /\ Commit(addPerson(Cur, name))
    /\ doc' = <<name>>
    /\ UNCHANGED <<status, args, out>>

ConnectName ==
    /\ status = "parsing"
    /\ Len(doc) = 1
    /\ Commit(addConnection(Cur, Chars("knows"), doc[1]))
    /\ doc' = Append(doc, doc[1])
    /\ UNCHANGED <<status, args, out>>

NamesNext ==
    \/ \E name \in Names : DeclareName(name)
    \/ ConnectName

SpecNames == Init /\ [][NamesNext]_vars

(***************************************************************************)
(* Properties of the parser, checked under Spec.                           *)
(***************************************************************************)
\* the line that the step under way hands to parseModel
LineRead == doc'[Len(doc')]

\* a step in which parseModel reads a line
Reads == status = "parsing" /\ Len(doc') = Len(doc) + 1

\* C1: a tab-indented line with neither "->" nor ":" is skipped: it leaves the
\* person mapping, the edges, the teams, the title and lastPerson as they were
\* and records one warning.
C1_UnparsableLineIsSkipped ==
    [][(Reads /\ IsUnparsable(LineRead)) =>
          /\ UNCHANGED <<title, people, order, heap, edges, teams, lastPerson>>
          /\ warnings' = Append(warnings, "CannotParseLine")
          /\ status' = "parsing"]_vars

OnlyDeclarations(d) == \A i \in 1..Len(d) : IsBlank(d[i]) \/ IsDeclaration(d[i])

\* the non-blank, non-indented lines of d
DeclarationLines(d) == {i \in 1..Len(d) : ~IsBlank(d[i]) /\ ~IsDetail(d[i])}

\* C2 as stated: a document of person declarations and blank lines yields as
\* many people as it has non-blank, non-indented lines, and no edge.
C2_PeopleCountIsLineCount ==
    (status = "parsed" /\ OnlyDeclarations(doc)) =>
        /\ Cardinality(DOMAIN people) = Cardinality(DeclarationLines(doc))
        /\ edges = <<>>

\* C2 as amended: such a document yields as many people as its non-blank,
\* non-indented lines have distinct nodeIds (a redeclared nodeId overwrites),
\* which is at most the number of those lines, and no edge.
C2_PeopleCountIsDistinctNodeIds ==
    (status = "parsed" /\ OnlyDeclarations(doc)) =>
        /\ Cardinality(DOMAIN people) =
              Cardinality({convertHumanNameToDotNodeName(doc[i]) : i \in DeclarationLines(doc)})
        /\ Cardinality(DOMAIN people) <= Cardinality(DeclarationLines(doc))
        /\ edges = <<>>

\* C2's case: a parsed document of declarations only, two of which share a nodeId
C2_Witness ==
    /\ status = "parsed"
    /\ OnlyDeclarations(doc)
    /\ Cardinality(DOMAIN people) = 2
    /\ Cardinality(DeclarationLines(doc)) = 3

\* a detail line of d that no person declaration precedes
DetailBeforePerson(d) ==
    \E i \in 1..Len(d) : IsDetail(d[i]) /\ \A j \in 1..(i - 1) : ~IsDeclaration(d[j])

\* C6: parseModel fails for every document with a detail line before any person
\* declaration: none is parsed, and the detail line creates no person and
\* records no edge, team or attribute.
C6_DetailBeforePersonFails ==
    DetailBeforePerson(doc) =>
        status = "parseFailed" /\ people = <<>> /\ heap = <<>> /\ edges = <<>>

PropertyKey(line) == Lower(Strip(SplitFirst(DetailText(line), Colon)[1]))
PropertyValue(line) == Strip(SplitFirst(DetailText(line), Colon)[2])

UnknownDmuLine(line) ==
    /\ IsProperty(line)
    /\ PropertyKey(line) = Chars("dmu")
    /\ Strip(Upper(PropertyValue(line))) \notin
          DmuAliases.D \cup DmuAliases.B \cup DmuAliases.I \cup DmuAliases.G \cup DmuAliases.U

UnknownSentimentLine(line) ==
    /\ IsProperty(line)
    /\ PropertyKey(line) = Chars("sentiment")
    /\ Strip(Upper(PropertyValue(line))) \notin
          SentimentAliases.P \cup SentimentAliases.O \cup SentimentAliases.N

\* C7: a property line "dmu: v" (resp. "sentiment: v") with an unrecognized v,
\* applied to the current person, leaves that person's dmu at "U" (resp. its
\* sentiment at "N") whatever it was, logs exactly one warning, does not stop
\* the parse, and changes nothing else of the person or the model.
C7_UnknownValueFallsBackToDefault ==
    [][(Reads /\ lastPerson # NoPerson) =>
          /\ UnknownDmuLine(LineRead) =>
                /\ heap' = [heap EXCEPT ![lastPerson].dmu = Chars("U")]
                /\ warnings' = Append(warnings, "UnknownDmu")
                /\ status' = "parsing"
                /\ UNCHANGED <<title, people, order, edges, teams, lastPerson>>
          /\ UnknownSentimentLine(LineRead) =>
                /\ heap' = [heap EXCEPT ![lastPerson].sentiment = Chars("N")]
                /\ warnings' = Append(warnings, "UnknownSentiment")
                /\ status' = "parsing"
                /\ UNCHANGED <<title, people, order, edges, teams, lastPerson>>]_vars

\* C7's case: an unrecognized dmu has just replaced a recognized one
C7_Witness ==
    /\ status = "parsing"
    /\ Len(doc) = 3
    /\ doc[2] = Chars("\tdmu: dm")
    /\ doc[3] = Chars("\tdmu: boss")
    /\ heap[lastPerson].dmu = Chars("U")
    /\ warnings = <<"UnknownDmu">>

ConnectionParts(line) == SplitFirst(DetailText(line), Arrow)

\* what C9 and its amendment share: a connection line read when a person has
\* been declared is split at the first "->"; with an empty side it changes
\* nothing; otherwise it appends one edge from lastPerson, of the trimmed type,
\* to the normalized trimmed destination; it never adds a person.
ConnectionLineEffect ==
    LET edgeType    == Strip(ConnectionParts(LineRead)[1])
        destination == Strip(ConnectionParts(LineRead)[2])
    IN  /\ status' = "parsing"
        /\ UNCHANGED <<title, people, order, heap, teams, lastPerson, warnings>>
        /\ ~Contains(edgeType, Arrow)
        /\ IF edgeType = <<>> \/ destination = <<>>
           THEN edges' = edges
           ELSE edges' = Append(edges,
                    [origin      |-> heap[lastPerson].dotNodeName,
                     type        |-> edgeType,
                     destination |-> convertHumanNameToDotNodeName(destination)])

\* C9 as stated: the effect above, and no recorded edge has an empty type or an
\* empty destination.
C9_ConnectionLineRecordsNonEmptyEdge ==
    [][(Reads /\ lastPerson # NoPerson /\ IsConnection(LineRead)) =>
          /\ ConnectionLineEffect
          /\ \A i \in 1..Len(edges') :
                edges'[i].type # <<>> /\ edges'[i].destination # <<>>]_vars

\* C9 as amended: the effect above; no recorded edge has an empty type, and a
\* recorded destination is empty only when the trimmed right side of its line
\* is not empty and holds nothing but hyphens and whitespace other than spaces,
\* all of which the normalization removes.
C9_ConnectionLineRecordsEdge ==
    [][(Reads /\ lastPerson # NoPerson /\ IsConnection(LineRead)) =>
          /\ ConnectionLineEffect
          /\ \A i \in 1..Len(edges') : edges'[i].type # <<>>
          /\ (Len(edges') > Len(edges) /\ edges'[Len(edges')].destination = <<>>) =>
                /\ Strip(ConnectionParts(LineRead)[2]) # <<>>
                /\ Range(Strip(ConnectionParts(LineRead)[2])) \subseteq
                      {"-"} \cup (Whitespace \ {" "})]_vars

\* C9's case: connection lines with a second "->", with an empty side and with
\* two sides have been read for a declared person
C9_Witness ==
    /\ status = "parsing"
    /\ Len(doc) = 3
    /\ doc[2] = Chars("\t-> Bob")
    /\ doc[3] = Chars("\tleads -> Bob->x")
    /\ Len(edges) = 1
    /\ edges[1].destination = Chars("Bob>x")

\* C10: once a person has been declared, lastPerson is the Person stored in the
\* mapping under its own nodeId, every edge's origin is a key of the mapping,
\* and every person's team is "??" or a member of the team set.
C10_ParseInvariant ==
    (status \in {"parsing", "parsed"} /\ lastPerson # NoPerson) =>
        /\ heap[lastPerson].dotNodeName \in DOMAIN people
        /\ people[heap[lastPerson].dotNodeName] = lastPerson
        /\ \A i \in 1..Len(edges) : edges[i].origin \in DOMAIN people
        /\ \A k \in DOMAIN people : heap[people[k]].team \in teams \cup {NoTeam}

\* C10's case: a person with an edge has been redeclared under the same nodeId
C10_Witness ==
    /\ status = "parsing"
    /\ Len(heap) > Cardinality(DOMAIN people)
    /\ edges # <<>>
    /\ lastPerson = Len(heap)

(***************************************************************************)
(* Properties of the name normalization, checked under SpecNames.          *)
(***************************************************************************)
\* C8: the nodeId derived from a name is a fixed point of the derivation and has
\* no space, no hyphen and no quote character; the destination of an edge
\* created from the same name equals the person's dotNodeName.
C8_NodeIdIsNormalForm ==
    /\ \A ref \in 1..Len(heap) :
          LET id == heap[ref].dotNodeName
          IN  /\ id = convertHumanNameToDotNodeName(id)
              /\ Range(id) \cap {" ", "-", LQuote} = {}
    /\ \A i \in 1..Len(edges) :
          /\ edges[i].destination = heap[lastPerson].dotNodeName
          /\ edges[i].origin = heap[lastPerson].dotNodeName

\* C8's case: a name with a space, a hyphen and the quote character inside has
\* named a person and the destination of an edge
C8_Witness ==
    /\ Len(doc) = 2
    /\ {" ", "-", LQuote} \subseteq Range(heap[lastPerson].fullName)
    /\ Len(edges) = 1

(***************************************************************************)
(* Properties of the example, checked under SpecExample.                   *)
(***************************************************************************)
TeamEngSearch == [NoArgs EXCEPT !.attributeMatches = <<Chars("team=Eng")>>]

ExampleRendered == status = "rendered" /\ doc = ExampleDoc /\ args = TeamEngSearch

NodeIds(o) == {o.nodes[i].id : i \in 1..Len(o.nodes)}

\* C3 as stated: the example rendered with attributeMatches = ["team=Eng"]
\* retains Alice (not excluded, her node statement emitted, a member of the
\* "Eng" subgraph) and excludes Bob and the edge.
C3_TeamSearchRetainsAlice ==
    ExampleRendered =>
        /\ ~isPersonExcluded(args, heap[people[Chars("Alice")]])
        /\ isPersonExcluded(args, heap[people[Chars("Bob")]])
        /\ NodeIds(out) = {Chars("Alice")}
        /\ out.subgraphs[Chars("Eng")] = <<Chars("Alice")>>
        /\ out.edges = <<>>

\* C3 as amended: team is a field of the person and no free-form attribute, so
\* the search "team=Eng" is matched against the placeholder "Unknown: team" and
\* excludes Alice as well as Bob: no node statement and no edge is emitted, and
\* the "Eng" and "Sales" subgraphs are declared without members.
C3_TeamSearchExcludesEveryone ==
    ExampleRendered =>
        /\ isPersonExcluded(args, heap[people[Chars("Alice")]])
        /\ isPersonExcluded(args, heap[people[Chars("Bob")]])
        /\ getAttribute(heap[people[Chars("Alice")]], Chars("team")) = Chars("Unknown: team")
        /\ out.nodes = <<>>
        /\ out.edges = <<>>
        /\ DOMAIN out.subgraphs = {Chars("Eng"), Chars("Sales")}
        /\ \A t \in DOMAIN out.subgraphs : out.subgraphs[t] = <<>>

\* C3's case: the whole example has been parsed and rendered under the search
C3_Witness ==
    /\ ExampleRendered
    /\ heap[people[Chars("Alice")]].team = Chars("Eng")
    /\ heap[people[Chars("Alice")]].dmu = Chars("D")
    /\ heap[people[Chars("Bob")]].team = Chars("Sales")
    /\ Len(edges) = 1

(***************************************************************************)
(* Properties of the renderer, checked under SpecRender.                   *)
(***************************************************************************)
SubgraphMembers(o) == UNION {Range(o.subgraphs[t]) : t \in DOMAIN o.subgraphs}

\* C4: rendered with teams = {"Eng"}, a person of team "Sales" is the subject of
\* no node statement, a member of no subgraph, and neither origin nor
\* destination of an emitted edge.
C4_SalesPersonNeverAppears ==
    (status = "rendered" /\ args = TeamsEng) =>
        \A k \in DOMAIN people :
            heap[people[k]].team = Chars("Sales") =>
                /\ k \notin NodeIds(out)
                /\ k \notin SubgraphMembers(out)
                /\ \A i \in 1..Len(out.edges) :
                      out.edges[i].origin # k /\ out.edges[i].destination # k

\* C5: a model with an edge whose origin or destination findPerson cannot
\* resolve is never rendered: getModelAsDot fails under every filter.
C5_UnresolvedEdgeFailsRender ==
    status = "rendered" =>
        \A i \in 1..Len(edges) :
            /\ findPerson(Cur, edges[i].origin) # NoPerson
            /\ findPerson(Cur, edges[i].destination) # NoPerson

=============================================================================
